---- MODULE Spec2Model ----
(***************************************************************************)
(* Model of keras_export/visualize_layers.py: the activation-maximization  *)
(* run of main() over a loaded Keras model.                                *)
(*                                                                         *)
(* Floating-point numbers are fixed-point integers with FP units per 1.0;  *)
(* every arithmetic step of the source is one fixed-point step here, in    *)
(* the source's order.  A tensor is a record [shape, data] with data the   *)
(* row-major flattening.  The time stamp of a file name is left out: it is *)
(* the wall clock, and no state of the program depends on it.              *)
(***************************************************************************)
EXTENDS Integers, Sequences, FiniteSets, TLC

VARIABLES
    pc,              \* position of the run
    error,           \* the exception that ended the run, or "none"
    model,           \* the model: [kind, name, filter_cnt, layers]
    layer_it,        \* process_layers: layers already taken from model.layers
    filter_cnt,      \* process_conv_2d_layer: local filter_cnt
    filter_it,       \* process_conv_2d_layer: indices already taken from range(filter_cnt)
    filter_index,    \* process_conv_2d_layer: loop variable of the filter loop
    kept_filters,    \* process_conv_2d_layer: local kept_filters
    i,               \* iterations of the ascent loop performed in the current run
    loss_value,      \* process_conv_2d_layer: local loss_value
    input_img_data,  \* process_conv_2d_layer: local input_img_data
    files,           \* the files imsave has written, in order
    started,         \* history: <<layer position, filter index>> of every ascent run started
    kept_src,        \* history: filter index that produced each entry of kept_filters
    files_src,       \* history: filter index that produced each entry of files
    first_nonpos,    \* history: iteration of the current run that first saw loss <= 0, 0 if none
    all_pos,         \* history: every loss evaluated in the current run was > 0
    run_base,        \* history: the tensor the current run was initialised with
    run_delta,       \* history: sum of the updates applied in the current run
    dp_x,            \* the array handed to a direct call of deprocess_image
    dp_img,          \* the image that call returned
    dp_in            \* history: the data of dp_x when the call was made

vars == <<pc, error, model, layer_it, filter_cnt, filter_it, filter_index,
          kept_filters, i, loss_value, input_img_data, files, started,
          kept_src, files_src, first_nonpos, all_pos, run_base,
          run_delta, dp_x, dp_img, dp_in>>

---------------------------------------------------------------------------
(* Bounds of the model. *)

\* longest layer list of a model
MaxLayers == 2
\* most filters of one model, over all its Conv2D layers
MaxFilters == 2

---------------------------------------------------------------------------
(* Numbers. *)

\* fixed-point units per 1.0
FP == 100
\* K.epsilon(): the smallest positive fixed-point number
epsilon == 1
\* a float that is not a number (every comparison with it is false)
NaN == 1000000
\* a local variable that is not bound yet
Unbound == 2000000

Min(a, b) == IF a < b THEN a ELSE b
Max(a, b) == IF a > b THEN a ELSE b

FMul(a, b) == (a * b) \div FP
FDiv(a, b) == (a * FP) \div b

RECURSIVE Bisect(_, _, _)
Bisect(n, lo, hi) ==
    IF lo = hi THEN lo
    ELSE LET mid == (lo + hi + 1) \div 2
         IN IF mid * mid <= n THEN Bisect(n, mid, hi) ELSE Bisect(n, lo, mid - 1)

\* square root of a fixed-point square (FP*FP units), in FP units
Sqrt(n) == Bisect(n, 0, Min(n, 46340))

RECURSIVE SumSeq(_)
SumSeq(s) == IF s = <<>> THEN 0 ELSE Head(s) + SumSeq(Tail(s))

\* ndarray.mean() / K.mean
Mean(s) == SumSeq(s) \div Len(s)

\* ndarray.std(): sqrt(mean(abs(x - x.mean())**2))
Std(s) == LET m == Mean(s)
          IN Sqrt(Mean([k \in 1..Len(s) |-> (s[k] - m) * (s[k] - m)]))

\* np.clip
Clip(s, lo, hi) == [k \in 1..Len(s) |-> Max(lo, Min(hi, s[k]))]

\* .astype('uint8') of fixed-point values: the fraction is dropped, 8 bits kept
AsUint8(s) == [k \in 1..Len(s) |-> (s[k] \div FP) % 256]

\* loss_value <= 0.
LE0(l) == l # NaN /\ l <= 0
\* loss_value > 0
GT0(l) == l # NaN /\ l > 0

---------------------------------------------------------------------------
(* deprocess_image *)

\* K.image_data_format(), asserted by main
image_data_format == "channels_last"

\* x.transpose((1, 2, 0)) of a tensor of three axes
Transpose120(t) ==
    LET a == t.shape[1]
        b == t.shape[2]
        c == t.shape[3]
    IN [shape |-> <<b, c, a>>,
        data  |-> [n \in 1..Len(t.data) |->
                     LET p == (n - 1) \div (c * a)
                         q == ((n - 1) \div a) % c
                         r == (n - 1) % a
                     IN t.data[r * b * c + p * c + q + 1]]]

\* lines 28-33 work in place: the data the argument array holds afterwards
deprocess_inplace(x) ==
    LET m  == Mean(x)
        d1 == [k \in 1..Len(x) |-> x[k] - m]
        sd == Std(d1)
        d2 == [k \in 1..Len(x) |-> FDiv(d1[k], sd + epsilon)]
        d3 == [k \in 1..Len(x) |-> FMul(d2[k], FP \div 10)]
    IN [k \in 1..Len(x) |-> d3[k] + FP \div 2]

\* a deprocess_image that leaves out the shift to mid-range (line 33)
deprocess_image_noshift(t) ==
    LET d4 == [k \in 1..Len(t.data) |-> deprocess_inplace(t.data)[k] - FP \div 2]
        d5 == Clip(d4, 0, FP)
        d6 == [k \in 1..Len(d5) |-> FMul(d5[k], 255 * FP)]
    IN [shape |-> t.shape, data |-> AsUint8(Clip(d6, 0, 255 * FP))]

\* the image deprocess_image returns for tensor t
deprocess_image(t) ==
    LET d4 == deprocess_inplace(t.data)
        d5 == Clip(d4, 0, FP)
        d6 == [k \in 1..Len(d5) |-> FMul(d5[k], 255 * FP)]
        t6 == [shape |-> t.shape, data |-> d6]
        t7 == IF image_data_format = "channels_first" THEN Transpose120(t6) ELSE t6
    IN [shape |-> t7.shape, data |-> AsUint8(Clip(t7.data, 0, 255 * FP))]

\* normalize: x / (sqrt(mean(square(x))) + epsilon)
normalize(x) ==
    LET rms == Sqrt(Mean([k \in 1..Len(x) |-> x[k] * x[k]]))
    IN [k \in 1..Len(x) |-> FDiv(x[k], rms + epsilon)]

\* np.squeeze: the axes of length 1 are dropped
squeeze(t) == [shape |-> SelectSeq(t.shape, LAMBDA n : n # 1), data |-> t.data]

\* the whole batch is handed on instead of its only element
Index0_Batch(t) == t

\* input_img_data[0]: the only element of the batch axis
Index0(t) == [shape |-> Tail(t.shape), data |-> t.data]

---------------------------------------------------------------------------
(* The inputs of a run. *)

\* model.input.shape[1:4]: img_width, img_height, img_chans
InputShape == <<1, 2, 1>>

InputLen == InputShape[1] * InputShape[2] * InputShape[3]

\* np.random.random: values of [0, 1)
NoiseValues == {0, FP \div 2}

\* step size for gradient ascent
step == FP

\* lines 76-77: a gray image with some random noise
new_input_img_data(noise) ==
    [shape |-> <<1>> \o InputShape,
     data  |-> [k \in 1..InputLen |-> FMul(noise[k] - FP \div 2, 20 * FP) + 128 * FP]]

InitTensors == {new_input_img_data(noise) : noise \in [1..InputLen -> NoiseValues]}

\* the values of loss_value, fixed-point
LossValues == {-1, 0, 1, 2, NaN}

\* the values of the gradient before normalization
ZeroGrad == <<0, 0>>
RawGrads == {ZeroGrad, <<3 * FP, -4 * FP>>}

\* what iterate([input_img_data]) returns (line 81): the loss and the normalized
\* gradient.  The gradient of a filter that is active (its loss is not <= 0) is
\* not zero.
Evals ==
    {[loss |-> l, grads |-> normalize(g)] : l \in {-1, 0}, g \in RawGrads}
      \cup {[loss |-> l, grads |-> normalize(g)] :
              l \in LossValues \ {-1, 0}, g \in RawGrads \ {ZeroGrad}}

\* names are sequences of code points
Names == {<<99>>, <<99, 233>>}

\* Check if a string only contains ascii characters
is_ascii(some_string) == \A k \in 1..Len(some_string) : some_string[k] < 128

Leaf(kind, name, cnt) == [kind |-> kind, name |-> name, filter_cnt |-> cnt, layers |-> <<>>]

\* a sub-model layer: its own layer list holds one Conv2D layer of one filter
Nested(kind) ==
    [kind |-> kind, name |-> <<99>>, filter_cnt |-> 0,
     layers |-> <<Leaf("Conv2D", <<99>>, 1)>>]

LayerChoices ==
    {Leaf("Conv2D", <<99>>, c) : c \in 1..MaxFilters}
      \cup {Leaf("Conv2D", <<99, 233>>, 1)}
      \cup {Leaf("Dense", n, 0) : n \in Names}
      \cup {Nested("Model"), Nested("Sequential")}

RECURSIVE TotalFilters(_)
TotalFilters(ls) ==
    IF ls = <<>> THEN 0
    ELSE Head(ls).filter_cnt + TotalFilters(Head(ls).layers) + TotalFilters(Tail(ls))

LayerLists ==
    {ls \in UNION {[1..n -> LayerChoices] : n \in 0..MaxLayers} :
        TotalFilters(ls) <= MaxFilters}

\* what load_model can return
Models ==
    {[kind |-> k, name |-> <<99>>, filter_cnt |-> 0, layers |-> ls] :
        k \in {"Model", "Sequential"}, ls \in LayerLists}

IsModel(layer) == layer.kind \in {"Model", "Sequential"}

\* the asserts of convert_sequential_to_model hold for m and its sub-models
RECURSIVE ConvertOk(_)
ConvertOk(m) ==
    /\ m.layers # <<>>
    /\ \A k \in 1..Len(m.layers) : IsModel(m.layers[k]) => ConvertOk(m.layers[k])

\* Convert a sequential model to the underlying functional format
RECURSIVE convert_sequential_to_model(_)
convert_sequential_to_model(m) ==
    [m EXCEPT !.kind = "Model",
              !.layers = [k \in 1..Len(m.layers) |->
                            IF IsModel(m.layers[k])
                            THEN convert_sequential_to_model(m.layers[k])
                            ELSE m.layers[k]]]

---------------------------------------------------------------------------
(* The run of main(). *)

\* range(20): the steps of gradient ascent
Iterations == 20

\* a tensor variable that is not bound
NoTensor == [shape |-> <<>>, data |-> <<>>]

Zeros == [k \in 1..InputLen |-> 0]

\* a filter loop that runs one index too far
HasNext_Inclusive(it, cnt) == it <= cnt

\* line 54: range(filter_cnt) has another index after `it` of them
HasNext(it, cnt) == it < cnt

\* an early stop that lets a loss of exactly 0 pass
Stops_Negative(l) == l # NaN /\ l < 0

\* line 85: the loop is left
Stops(l) == LE0(l)

\* a decode that also keeps a loss of exactly 0
Keeps_NonNegative(l) == l # NaN /\ l >= 0

\* line 92: the run is decoded and kept
Keeps(l) == GT0(l)

\* lines 130-134: the file written for entry k (counted from 1) of images_with_loss
FileOf(name, k, entry) ==
    [layer |-> name, index |-> k - 1, loss |-> entry.loss, image |-> squeeze(entry.img)]

Layer == model.layers[layer_it + 1]

NoFrame ==
    /\ filter_cnt' = Unbound
    /\ filter_it' = 0
    /\ filter_index' = Unbound
    /\ i' = 0
    /\ loss_value' = Unbound
    /\ input_img_data' = NoTensor
    /\ first_nonpos' = 0
    /\ all_pos' = TRUE
    /\ run_base' = <<>>
    /\ run_delta' = <<>>

Init ==
    /\ pc = "main"
    /\ error = "none"
    /\ model \in Models
    /\ layer_it = 0
    /\ filter_cnt = Unbound
    /\ filter_it = 0
    /\ filter_index = Unbound
    /\ kept_filters = <<>>
    /\ i = 0
    /\ loss_value = Unbound
    /\ input_img_data = NoTensor
    /\ files = <<>>
    /\ started = <<>>
    /\ kept_src = <<>>
    /\ files_src = <<>>
    /\ first_nonpos = 0
    /\ all_pos = TRUE
    /\ run_base = <<>>
    /\ run_delta = <<>>
    /\ dp_x = NoTensor
    /\ dp_img = NoTensor
    /\ dp_in = <<>>

\* main, lines 170-172: the model is loaded and converted
Main ==
    /\ pc = "main"
    /\ IF ConvertOk(model)
       THEN /\ model' = convert_sequential_to_model(model)
            /\ pc' = "layers"
            /\ error' = error
       ELSE /\ model' = model
            /\ pc' = "aborted"
            /\ error' = "AssertionError: model.layers"
    /\ UNCHANGED <<layer_it, filter_cnt, filter_it, filter_index, kept_filters, i,
                   loss_value, input_img_data, files, started, kept_src, files_src,
                   first_nonpos, all_pos, run_base, run_delta, dp_x, dp_img, dp_in>>

\* process_layers, line 120: the layer list is exhausted
LayersDone ==
    /\ pc = "layers"
    /\ layer_it = Len(model.layers)
    /\ pc' = "done"
    /\ UNCHANGED <<error, model, layer_it, filter_cnt, filter_it, filter_index,
                   kept_filters, i, loss_value, input_img_data, files, started,
                   kept_src, files_src, first_nonpos, all_pos, run_base,
                   run_delta, dp_x, dp_img, dp_in>>

\* process_layers, lines 122-123: process_layers(layer) lacks the argument out_dir
NestedLayer ==
    /\ pc = "layers"
    /\ layer_it < Len(model.layers)
    /\ IsModel(Layer)
    /\ pc' = "aborted"
    /\ error' = "TypeError"
    /\ UNCHANGED <<model, layer_it, filter_cnt, filter_it, filter_index,
                   kept_filters, i, loss_value, input_img_data, files, started,
                   kept_src, files_src, first_nonpos, all_pos, run_base,
                   run_delta, dp_x, dp_img, dp_in>>

\* process_layers, line 127: assert is_ascii(name) fails
BadName ==
    /\ pc = "layers"
    /\ layer_it < Len(model.layers)
    /\ ~IsModel(Layer)
    /\ ~is_ascii(Layer.name)
    /\ pc' = "aborted"
    /\ error' = "AssertionError: is_ascii(name)"
    /\ UNCHANGED <<model, layer_it, filter_cnt, filter_it, filter_index,
                   kept_filters, i, loss_value, input_img_data, files, started,
                   kept_src, files_src, first_nonpos, all_pos, run_base,
                   run_delta, dp_x, dp_img, dp_in>>

\* process_layers, lines 125-128: no function processes a layer of this type
OtherLayer ==
    /\ pc = "layers"
    /\ layer_it < Len(model.layers)
    /\ ~IsModel(Layer)
    /\ is_ascii(Layer.name)
    /\ Layer.kind # "Conv2D"
    /\ layer_it' = layer_it + 1
    /\ UNCHANGED <<pc, error, model, filter_cnt, filter_it, filter_index,
                   kept_filters, i, loss_value, input_img_data, files, started,
                   kept_src, files_src, first_nonpos, all_pos, run_base,
                   run_delta, dp_x, dp_img, dp_in>>

\* process_layers, line 129, and process_conv_2d_layer, lines 50-53
ConvLayer ==
    /\ pc = "layers"
    /\ layer_it < Len(model.layers)
    /\ ~IsModel(Layer)
    /\ is_ascii(Layer.name)
    /\ Layer.kind = "Conv2D"
    /\ filter_cnt' = Layer.filter_cnt
    /\ filter_it' = 0
    /\ kept_filters' = <<>>
    /\ kept_src' = <<>>
    /\ pc' = "filter"
    /\ UNCHANGED <<error, model, layer_it, filter_index, i, loss_value,
                   input_img_data, files, started, files_src, first_nonpos,
                   all_pos, run_base, run_delta, dp_x, dp_img, dp_in>>

\* a filter loop that creates the input tensor once per layer and reuses it
NextFilter_Carried ==
    /\ pc = "filter"
    /\ HasNext(filter_it, filter_cnt)
    /\ filter_index' = filter_it
    /\ filter_it' = filter_it + 1
    /\ \E noise \in [1..InputLen -> NoiseValues] :
          input_img_data' = IF filter_it = 0 THEN new_input_img_data(noise)
                            ELSE input_img_data
    /\ run_base' = input_img_data'.data
    /\ i' = 0
    /\ pc' = "ascent"
    /\ started' = Append(started, <<layer_it + 1, filter_it>>)
    /\ first_nonpos' = 0
    /\ all_pos' = TRUE
    /\ run_delta' = Zeros
    /\ UNCHANGED <<error, model, layer_it, filter_cnt, kept_filters, loss_value,
                   files, kept_src, files_src, dp_x, dp_img, dp_in>>

\* process_conv_2d_layer, lines 54-77: the next filter's run begins
NextFilter ==
    /\ pc = "filter"
    /\ HasNext(filter_it, filter_cnt)
    /\ filter_index' = filter_it
    /\ filter_it' = filter_it + 1
    /\ \E noise \in [1..InputLen -> NoiseValues] :
          /\ input_img_data' = new_input_img_data(noise)
          /\ run_base' = new_input_img_data(noise).data
    /\ i' = 0
    /\ pc' = "ascent"
    /\ started' = Append(started, <<layer_it + 1, filter_it>>)
    /\ first_nonpos' = 0
    /\ all_pos' = TRUE
    /\ run_delta' = Zeros
    /\ UNCHANGED <<error, model, layer_it, filter_cnt, kept_filters, loss_value,
                   files, kept_src, files_src, dp_x, dp_img, dp_in>>

\* process_conv_2d_layer, lines 80-89: one iteration of the ascent loop
Iterate ==
    /\ pc = "ascent"
    /\ \E e \in Evals :
          LET l == e.loss
              upd == [k \in 1..InputLen |-> FMul(e.grads[k], step)]
          IN /\ loss_value' = l
             /\ input_img_data' =
                   [input_img_data EXCEPT
                      !.data = [k \in 1..InputLen |-> input_img_data.data[k] + upd[k]]]
             /\ run_delta' = [k \in 1..InputLen |-> run_delta[k] + upd[k]]
             /\ i' = i + 1
             /\ pc' = IF Stops(l) \/ i + 1 = Iterations THEN "decode" ELSE "ascent"
             /\ first_nonpos' = IF first_nonpos = 0 /\ LE0(l) THEN i + 1 ELSE first_nonpos
             /\ all_pos' = (all_pos /\ GT0(l))
    /\ UNCHANGED <<error, model, layer_it, filter_cnt, filter_it, filter_index,
                   kept_filters, files, started, kept_src, files_src,
                   run_base, dp_x, dp_img, dp_in>>

\* process_conv_2d_layer, lines 91-94: decode the resulting input image
Decode ==
    /\ pc = "decode"
    /\ IF Keeps(loss_value)
       THEN /\ kept_filters' =
                  Append(kept_filters,
                         [img |-> deprocess_image(Index0(input_img_data)),
                          loss |-> loss_value])
            /\ input_img_data' =
                  [input_img_data EXCEPT !.data = deprocess_inplace(input_img_data.data)]
            /\ kept_src' = Append(kept_src, filter_index)
       ELSE UNCHANGED <<kept_filters, input_img_data, kept_src>>
    /\ pc' = "filter"
    /\ UNCHANGED <<error, model, layer_it, filter_cnt, filter_it, filter_index, i,
                   loss_value, files, started, files_src, first_nonpos, all_pos,
                   run_base, run_delta, dp_x, dp_img, dp_in>>

\* process_conv_2d_layer, line 96: return kept_filters
ReturnKept ==
    /\ pc = "filter"
    /\ ~HasNext(filter_it, filter_cnt)
    /\ pc' = "write"
    /\ NoFrame
    /\ UNCHANGED <<error, model, layer_it, kept_filters, files, started, kept_src,
                   files_src, dp_x, dp_img, dp_in>>

\* process_layers, lines 130-134: one file per entry of images_with_loss
WriteImages ==
    /\ pc = "write"
    /\ files' = files \o [k \in 1..Len(kept_filters) |->
                            FileOf(Layer.name, k, kept_filters[k])]
    /\ files_src' = files_src \o kept_src
    /\ layer_it' = layer_it + 1
    /\ pc' = "layers"
    /\ UNCHANGED <<error, model, filter_cnt, filter_it, filter_index, kept_filters,
                   i, loss_value, input_img_data, started, kept_src, first_nonpos,
                   all_pos, run_base, run_delta, dp_x, dp_img, dp_in>>

Next ==
    \/ Main
    \/ LayersDone
    \/ NestedLayer
    \/ BadName
    \/ OtherLayer
    \/ ConvLayer
    \/ NextFilter
    \/ Iterate
    \/ Decode
    \/ ReturnKept
    \/ WriteImages

Spec == Init /\ [][Next]_vars

---------------------------------------------------------------------------
(* deprocess_image called on its own. *)

DpShapes == {<<1, 1, 1>>, <<1, 2, 1>>, <<2, 1, 1>>, <<1, 1, 3>>}

DpValues == {-3 * FP, 0, 1, 128 * FP}

DpTensors ==
    UNION {{[shape |-> sh, data |-> d] : d \in [1..(sh[1] * sh[2] * sh[3]) -> DpValues]} :
             sh \in DpShapes}

InitDeprocess ==
    /\ pc = "call"
    /\ error = "none"
    /\ model = [kind |-> "Model", name |-> <<99>>, filter_cnt |-> 0, layers |-> <<>>]
    /\ layer_it = 0
    /\ filter_cnt = Unbound
    /\ filter_it = 0
    /\ filter_index = Unbound
    /\ kept_filters = <<>>
    /\ i = 0
    /\ loss_value = Unbound
    /\ input_img_data = NoTensor
    /\ files = <<>>
    /\ started = <<>>
    /\ kept_src = <<>>
    /\ files_src = <<>>
    /\ first_nonpos = 0
    /\ all_pos = TRUE
    /\ run_base = <<>>
    /\ run_delta = <<>>
    /\ dp_x \in DpTensors
    /\ dp_img = NoTensor
    /\ dp_in = dp_x.data

\* deprocess_image(x), lines 26-41
DeprocessCall ==
    /\ pc = "call"
    /\ dp_img' = deprocess_image(dp_x)
    /\ dp_x' = [dp_x EXCEPT !.data = deprocess_inplace(dp_x.data)]
    /\ pc' = "returned"
    /\ UNCHANGED <<error, model, layer_it, filter_cnt, filter_it, filter_index,
                   kept_filters, i, loss_value, input_img_data, files, started,
                   kept_src, files_src, first_nonpos, all_pos, run_base,
                   run_delta, dp_in>>

SpecDeprocess == InitDeprocess /\ [][DeprocessCall]_vars

---------------------------------------------------------------------------
(* Properties. *)

\* the run of filter_index is over and decoded, and its frame is still live
Decoded == pc = "filter" /\ filter_it > 0

\* the entries of kept_filters that filter f produced
KeptOf(f) == {k \in 1..Len(kept_src) : kept_src[k] = f}

\* the ascent runs started for the layer at position p, in order
RunsOf(p) == SelectSeq(started, LAMBDA r : r[1] = p)

\* one run per filter index below n for the layer at position p, in increasing order
RunsUpTo(p, n) == [k \in 1..n |-> <<p, k - 1>>]

RECURSIVE AllAscii(_)
AllAscii(ls) ==
    \A k \in 1..Len(ls) :
        IF IsModel(ls[k]) THEN AllAscii(ls[k].layers) ELSE is_ascii(ls[k].name)

\* C1: a FilterResult is added only when the loss held at the end of the loop is
\* > 0, so every entry of kept_filters has a loss > 0; a filter that saw a loss
\* <= 0 at any evaluated step has no entry.
C1_KeptOnlyPositive ==
    /\ \A k \in 1..Len(kept_filters) : GT0(kept_filters[k].loss)
    /\ Len(kept_src) = Len(kept_filters)
    /\ Decoded =>
          /\ KeptOf(filter_index) # {} => GT0(loss_value)
          /\ first_nonpos # 0 => KeptOf(filter_index) = {}

\* a filter was skipped after evaluations with loss > 0 while another was kept
C1_Witness ==
    /\ Decoded
    /\ first_nonpos > 1
    /\ KeptOf(filter_index) = {}
    /\ kept_filters # <<>>

\* C2 as claimed: when the assert on a layer name ends the run, no ascent run has
\* been started and no image has been written.
C2_AbortBeforeAnyWork ==
    (pc = "aborted" /\ error = "AssertionError: is_ascii(name)") =>
        (started = <<>> /\ files = <<>>)

\* C3 as claimed: the index in the name of every written file is the index of the
\* filter whose run produced the image.
C3_FileIndexIsFilterIndex ==
    /\ Len(files_src) = Len(files)
    /\ \A k \in 1..Len(files) : files[k].index = files_src[k]

\* C4: the loop never performs more than 20 iterations; it performs fewer only
\* when a loss <= 0 was seen, and then it stops in the iteration that saw it; a
\* loss <= 0 at the first evaluation ends the run at iteration 1 with no entry.
C4_IterationBound ==
    /\ i <= Iterations
    /\ pc = "ascent" => (i < Iterations /\ first_nonpos = 0)
    /\ (pc = "decode" \/ Decoded) =>
          /\ i >= 1
          /\ i < Iterations => (first_nonpos = i /\ LE0(loss_value))
          /\ first_nonpos # 0 => i = first_nonpos
    /\ (Decoded /\ first_nonpos = 1) => (i = 1 /\ KeptOf(filter_index) = {})

\* a run whose first loss was exactly 0 has been decoded
C4_Witness ==
    /\ Decoded
    /\ first_nonpos = 1
    /\ loss_value = 0
    /\ i = 1

\* C5: when every evaluated loss of a run is > 0, the run takes all 20 iterations
\* and adds exactly one entry: the final loss, and the image of the input tensor
\* after all the updates.
C5_AllPositiveKept ==
    (Decoded /\ all_pos) =>
        /\ i = Iterations
        /\ KeptOf(filter_index) = {Len(kept_filters)}
        /\ kept_filters[Len(kept_filters)].loss = loss_value
        /\ kept_filters[Len(kept_filters)].img =
              deprocess_image([shape |-> InputShape,
                               data  |-> [k \in 1..InputLen |->
                                            run_base[k] + run_delta[k]]])

\* a run with only positive losses has been decoded after another filter
C5_Witness ==
    /\ Decoded
    /\ all_pos
    /\ filter_index = 1
    /\ run_delta # Zeros

C7_TraversalCompletes ==
    /\ (pc = "aborted" /\ AllAscii(model.layers)) =>
          error = "AssertionError: model.layers"
    /\ pc = "done" => Len(started) = TotalFilters(model.layers)

C9_NoUpdateOnStop ==
    [][(pc = "ascent" /\ pc' = "decode" /\ LE0(loss_value')) =>
          input_img_data' = input_img_data]_vars

\* C10: every run starts from a newly initialised tensor and iteration 0, the
\* tensor of a run is that start plus the run's own updates, the loss it is
\* decoded with was evaluated in this run, and whether it is kept is decided by
\* its own evaluations alone.
C10_FreshStatePerFilter ==
    /\ (pc = "ascent" /\ i = 0) => (input_img_data \in InitTensors /\ first_nonpos = 0)
    /\ pc \in {"ascent", "decode"} =>
          /\ input_img_data.shape = <<1>> \o InputShape
          /\ input_img_data.data = [k \in 1..InputLen |-> run_base[k] + run_delta[k]]
    /\ pc = "decode" => i >= 1
    /\ Decoded =>
          (KeptOf(filter_index) # {}
             <=> (i = Iterations /\ first_nonpos = 0 /\ GT0(loss_value)))

\* the second filter of a layer starts after a first one that was kept
C10_Witness ==
    /\ pc = "ascent"
    /\ i = 0
    /\ filter_index = 1
    /\ kept_filters # <<>>
    /\ GT0(loss_value)

====
